---- MODULE Spec2Model ----
(***************************************************************************)
(* A model of foliconf (src/foliconf/__init__.py): the section registry,   *)
(* the runtime helpers over configuration instances, the stub generator's  *)
(* schema tree and emitter, the type renderer and the discovery visitor.   *)
(*                                                                         *)
(* Python strings are sequences of one-character strings, ordered by code  *)
(* point (Ord), so that split, join and sorted are computed, not assumed.  *)
(* A Python object is a record [k |-> "obj", cls, d] with d its instance   *)
(* __dict__; a primitive value is [k |-> "leaf", v].  Configuration        *)
(* instances are trees (no aliasing: every object is created fresh by      *)
(* make_config or by an intermediate default()), so in-place mutation is   *)
(* modelled by writing the changed child back into its parent.             *)
(***************************************************************************)
EXTENDS Integers, Sequences, FiniteSets, TLC

VARIABLES
    name_to_config,   \* _name_to_config: insertion-ordered dict, a sequence of [name, cls]
    config,           \* the configuration instance the caller holds (None before any)
    returned,         \* what the last call returned other than an instance (None if nothing)
    op,               \* the last call: its name, its arguments, the instance before it
    raised,           \* the exception the last call raised ("none" when it returned)
    printed,          \* what the last call printed (check_config's warnings)
    self_config,      \* StubMaker.config: the schema tree
    ann,              \* the type descriptor handed to the type renderer
    local_mod_path,   \* StubMaker._local_mod_path (None before start_module)
    should_import,    \* StubMaker._should_import ("unset" before start_module)
    sys_modules,      \* sys.modules: the names of the modules already loaded
    executed,         \* the log of module executions, in order
    scanned,          \* the decorators visit_ClassDef met since start_module
    verbose           \* StubMaker._verbose

vars == <<name_to_config, config, returned, op, raised, printed,
          self_config, ann, local_mod_path, should_import, sys_modules, executed,
          scanned, verbose>>

stubVars == <<self_config>>
typeVars == <<ann>>
loadVars == <<local_mod_path, should_import, sys_modules, executed, scanned, verbose>>

(* ------------------------------ bounds -------------------------------- *)

MaxSections == 2
MaxUpdates == 2

(* ------------------------------ strings ------------------------------- *)

Ord(c) ==
    CASE c = "." -> 46
      [] c = "@" -> 64
      [] c = "A" -> 65
      [] c = "D" -> 68
      [] c = "L" -> 76
      [] c = "N" -> 78
      [] c = "O" -> 79
      [] c = "U" -> 85
      [] c = "_" -> 95
      [] c = "a" -> 97
      [] c = "b" -> 98
      [] c = "c" -> 99
      [] c = "e" -> 101
      [] c = "i" -> 105
      [] c = "l" -> 108
      [] c = "n" -> 110
      [] c = "o" -> 111
      [] c = "p" -> 112
      [] c = "r" -> 114
      [] c = "s" -> 115
      [] c = "t" -> 116
      [] c = "x" -> 120
      [] c = "y" -> 121

RECURSIVE StrLess(_, _)
StrLess(s, t) ==
    IF t = <<>> THEN FALSE
    ELSE IF s = <<>> THEN TRUE
    ELSE IF Ord(Head(s)) # Ord(Head(t)) THEN Ord(Head(s)) < Ord(Head(t))
    ELSE StrLess(Tail(s), Tail(t))

\* str.split("."): the pieces between the dots; "" splits to [""].
RECURSIVE SplitAcc(_, _)
SplitAcc(s, cur) ==
    IF s = <<>> THEN <<cur>>
    ELSE IF Head(s) = "." THEN <<cur>> \o SplitAcc(Tail(s), <<>>)
    ELSE SplitAcc(Tail(s), Append(cur, Head(s)))

Split(s) == SplitAcc(s, <<>>)

\* ".".join(parts)
RECURSIVE Join(_)
Join(parts) ==
    IF parts = <<>> THEN <<>>
    ELSE IF Len(parts) = 1 THEN parts[1]
    ELSE parts[1] \o <<".">> \o Join(Tail(parts))

StartsWithDunder(s) == Len(s) >= 2 /\ s[1] = "_" /\ s[2] = "_"

Range(s) == {s[i] : i \in DOMAIN s}

\* sorted(items, key=...): a stable sort, ascending by each item's key field.
\* x precedes every item of s in the input, so it goes before its equals.
RECURSIVE InsertSorted(_, _)
InsertSorted(x, s) ==
    IF s = <<>> THEN <<x>>
    ELSE IF ~StrLess(Head(s).key, x.key) THEN <<x>> \o s
    ELSE <<Head(s)>> \o InsertSorted(x, Tail(s))

RECURSIVE Sorted(_)
Sorted(s) ==
    IF s = <<>> THEN <<>>
    ELSE InsertSorted(Head(s), Sorted(Tail(s)))

(* ------------------------------ values -------------------------------- *)

None == [k |-> "none"]
Leaf(v) == [k |-> "leaf", v |-> v]
Obj(cls, d) == [k |-> "obj", cls |-> cls, d |-> d]
IsObj(o) == o.k = "obj"
IsLeaf(o) == o.k = "leaf"
EmptyDict == [x \in {} |-> None]
DictSet(d, key, val) == [x \in DOMAIN d \cup {key} |-> IF x = key THEN val ELSE d[x]]

BaseName == <<"@", "b", "a", "s", "e">>

\* The classes of the program under analysis: class attributes (defaults)
\* and the names in the explicit annotations.  Config is the generic base
\* of the generated module ("class Config: pass").
ClassAttrs(cls) ==
    CASE cls = "Config" -> EmptyDict
      [] cls = "A" -> [x \in {<<"x">>} |-> Leaf(1)]
      [] cls = "B" -> [x \in {<<"b">>} |-> Leaf(2)]

ClassAnnotations(cls) ==
    CASE cls = "Config" -> {}
      [] cls = "A" -> {<<"x">>}
      [] cls = "B" -> {<<"y">>}

SectionClasses == {"A", "B"}

Config_cls == "Config"

\* An int has public attributes of its own; "real" stands for them.
PrimAttrs(o) == [x \in {<<"r", "e", "a", "l">>} |-> o]

(* ------------------------- attribute protocol ------------------------- *)

HasAttr(o, name) ==
    IF IsObj(o) THEN name \in DOMAIN o.d \/ name \in DOMAIN ClassAttrs(o.cls)
    ELSE name \in DOMAIN PrimAttrs(o)

\* getattr(o, name) where hasattr(o, name): the instance __dict__ first.
GetAttr(o, name) ==
    IF IsObj(o)
    THEN IF name \in DOMAIN o.d THEN o.d[name] ELSE ClassAttrs(o.cls)[name]
    ELSE PrimAttrs(o)[name]

\* dir(o) without the dunder names
Dir(o) ==
    IF IsObj(o) THEN DOMAIN o.d \cup DOMAIN ClassAttrs(o.cls)
    ELSE DOMAIN PrimAttrs(o)

\* setattr(o, name, value) on an object that takes attributes
SetAttr(o, name, value) == Obj(o.cls, DictSet(o.d, name, value))

\* A call's outcome: it returned with o, or raised leaving o as it then was.
Ok(o) == [ok |-> TRUE, o |-> o]
Raise(o) == [ok |-> FALSE, o |-> o]

\* setattr(o, name, value): a primitive takes no attribute (AttributeError).
Setattr(o, name, value) ==
    IF IsObj(o) THEN Ok(SetAttr(o, name, value)) ELSE Raise(o)

\* An intermediate that is set to default() whether or not it exists.
EnsureAttr_always(o, name, default) == Setattr(o, name, Obj(default, EmptyDict))

\* if not hasattr(o, keys[0]): setattr(o, keys[0], default())
EnsureAttr(o, name, default) ==
    IF HasAttr(o, name) THEN Ok(o) ELSE Setattr(o, name, Obj(default, EmptyDict))

\* The child reached through getattr is mutated in place; it is written back
\* when it lives in the instance __dict__ (a class attribute is a primitive
\* here, and the recursion into a primitive raises).
RECURSIVE recursive_creative_setattr(_, _, _, _)
recursive_creative_setattr(o, keys, default, value) ==
    IF Len(keys) = 1 THEN Setattr(o, keys[1], value)
    ELSE LET e == EnsureAttr(o, keys[1], default)
         IN  IF ~e.ok THEN e
             ELSE LET r == recursive_creative_setattr(
                               GetAttr(e.o, keys[1]), Tail(keys), default, value)
                      o2 == IF IsObj(e.o) /\ keys[1] \in DOMAIN e.o.d
                            THEN SetAttr(e.o, keys[1], r.o) ELSE e.o
                  IN  [ok |-> r.ok, o |-> o2]

\* getattr raises AttributeError when the attribute is absent.
RECURSIVE recursive_getattr(_, _)
recursive_getattr(o, keys) ==
    IF ~HasAttr(o, keys[1]) THEN Raise(o)
    ELSE IF Len(keys) = 1 THEN Ok(GetAttr(o, keys[1]))
    ELSE recursive_getattr(GetAttr(o, keys[1]), Tail(keys))

(* ------------------------------ registry ------------------------------ *)

Names(reg) == {reg[i].name : i \in DOMAIN reg}
Classes(reg) == {reg[i].cls : i \in DOMAIN reg}
RegGet(reg, name, default) ==
    IF name \in Names(reg)
    THEN (CHOOSE e \in Range(reg) : e.name = name).cls
    ELSE default
\* _name_to_config.items() as sortable items (names are unique, so the
\* tuple order is the order of the names)
Items(reg) == [i \in DOMAIN reg |-> [key |-> reg[i].name, cls |-> reg[i].cls]]

\* A decorator without the membership test: the assignment rebinds the path.
decorator_rebinds(reg, name, c) ==
    [ok |-> TRUE,
     reg |-> IF name \in Names(reg)
             THEN [i \in DOMAIN reg |->
                      IF reg[i].name = name THEN [name |-> name, cls |-> c] ELSE reg[i]]
             ELSE Append(reg, [name |-> name, cls |-> c]),
     args |-> <<>>]

\* config_class(name)(c): the decorator's body.  args are the ValueError's
\* arguments: the name, the class found and the class registered before.
decorator(reg, name, c) ==
    IF name \in Names(reg)
    THEN [ok |-> FALSE, reg |-> reg, args |-> <<name, c, RegGet(reg, name, None)>>]
    ELSE [ok |-> TRUE, reg |-> Append(reg, [name |-> name, cls |-> c]), args |-> <<>>]

(* --------------------------- runtime helpers -------------------------- *)

RECURSIVE make_config_loop(_, _)
make_config_loop(cfg, items) ==
    IF items = <<>> THEN Ok(cfg)
    ELSE IF Head(items).key = BaseName THEN make_config_loop(cfg, Tail(items))
    ELSE LET r == recursive_creative_setattr(cfg, Split(Head(items).key), Config_cls,
                                             Obj(Head(items).cls, EmptyDict))
         IN  IF r.ok THEN make_config_loop(r.o, Tail(items)) ELSE r

\* The items taken in registration order.
SortedItems_unsorted(reg) == Items(reg)

\* sorted(_name_to_config.items())
SortedItems(reg) == Sorted(Items(reg))

make_config(reg) ==
    make_config_loop(Obj(RegGet(reg, BaseName, Config_cls), EmptyDict), SortedItems(reg))

\* config_dict is an insertion-ordered dict: a sequence of [key, val].
RECURSIVE update_config(_, _)
update_config(cfg, config_dict) ==
    IF config_dict = <<>> THEN Ok(cfg)
    ELSE LET r == recursive_creative_setattr(cfg, Split(Head(config_dict).key), Config_cls,
                                             Head(config_dict).val)
         IN  IF r.ok THEN update_config(r.o, Tail(config_dict)) ELSE r

Warning(cname, name) == [cname |-> cname, name |-> name]

\* Returns [ok, printed]: the warnings printed, or ok = FALSE when the walk
\* to a section raised.
RECURSIVE check_config_loop(_, _, _)
check_config_loop(cfg, reg, out) ==
    IF reg = <<>> THEN [ok |-> TRUE, printed |-> out]
    ELSE IF Head(reg).name = BaseName THEN check_config_loop(cfg, Tail(reg), out)
    ELSE LET sub == recursive_getattr(cfg, Split(Head(reg).name))
         IN  IF ~sub.ok THEN [ok |-> FALSE, printed |-> out]
             ELSE check_config_loop(cfg, Tail(reg),
                      out \cup {Warning(Head(reg).name, n) :
                                   n \in {m \in ClassAnnotations(Head(reg).cls) :
                                              ~HasAttr(sub.o, m)}})

check_config(cfg, reg) == check_config_loop(cfg, reg, {})

\* d[key] = val on an insertion-ordered dict
DictPut(d, key, val) ==
    IF \E i \in DOMAIN d : d[i].key = key
    THEN [i \in DOMAIN d |-> IF d[i].key = key THEN [key |-> key, val |-> val] ELSE d[i]]
    ELSE Append(d, [key |-> key, val |-> val])

\* dir() lists names in ascending order
RECURSIVE SortedNames(_)
SortedNames(S) ==
    IF S = {} THEN <<>>
    ELSE LET m == CHOOSE x \in S : \A y \in S \ {x} : StrLess(x, y)
         IN  <<m>> \o SortedNames(S \ {m})

isinstance_config(o, reg) == IsObj(o) /\ o.cls \in Classes(reg) \cup {Config_cls}

\* A key that leaves out the section's path.
FlatKey_unqualified(csplit, i) == Join(<<i>>)

\* ".".join(csplit + [i])
FlatKey(csplit, i) == Join(Append(csplit, i))

RECURSIVE to_dict_attrs(_, _, _, _, _)
to_dict_attrs(subcfg, csplit, names, reg, d) ==
    IF names = <<>> THEN d
    ELSE LET i == Head(names)
             o == GetAttr(subcfg, i)
         IN  IF StartsWithDunder(i) \/ isinstance_config(o, reg)
             THEN to_dict_attrs(subcfg, csplit, Tail(names), reg, d)
             ELSE to_dict_attrs(subcfg, csplit, Tail(names), reg,
                                DictPut(d, FlatKey(csplit, i), o))

\* Returns [ok, o]: o the flat mapping, or ok = FALSE when a walk raised.
RECURSIVE config_to_dict_loop(_, _, _, _)
config_to_dict_loop(cfg, todo, reg, d) ==
    IF todo = <<>> THEN Ok(d)
    ELSE LET cname == Head(todo).name
             csplit == IF cname = BaseName THEN <<>> ELSE Split(cname)
             sub == IF cname = BaseName THEN Ok(cfg) ELSE recursive_getattr(cfg, csplit)
         IN  IF ~sub.ok THEN Raise(d)
             ELSE config_to_dict_loop(cfg, Tail(todo), reg,
                      to_dict_attrs(sub.o, csplit, SortedNames(Dir(sub.o)), reg, d))

config_to_dict(cfg, reg) == config_to_dict_loop(cfg, reg, reg, <<>>)

\* Returns [ok, o, by, printed]
config_from_dict(config_dict, reg) ==
    LET m == make_config(reg)
        u == update_config(m.o, config_dict)
        c == check_config(u.o, reg)
    IN  IF ~m.ok THEN [ok |-> FALSE, o |-> None, by |-> "make_config", printed |-> {}]
        ELSE IF ~u.ok THEN [ok |-> FALSE, o |-> None, by |-> "update_config", printed |-> {}]
        ELSE IF ~c.ok THEN [ok |-> FALSE, o |-> None, by |-> "check_config", printed |-> c.printed]
        ELSE [ok |-> TRUE, o |-> u.o, by |-> "none", printed |-> c.printed]

(* ------------------------------- inputs ------------------------------- *)

SectionNames ==
    {BaseName, <<"a">>, <<"a", ".", "b">>, <<"a", ".", "b", ".", "c">>}

UpdateKeys ==
    {<<"a", ".", "b">>, <<"a", ".", "b", ".", "c">>}

UpdateValues == {Leaf(5)}

\* The flat mappings a caller passes: up to MaxUpdates entries, distinct keys.
UpdateDicts ==
    {d \in UNION {[1..n -> [key : UpdateKeys, val : UpdateValues]] : n \in 1..MaxUpdates} :
        \A i, j \in DOMAIN d : i # j => d[i].key # d[j].key}

(* ------------------------------ actions ------------------------------- *)

NoExc == [exc |-> "none", by |-> "none", args |-> <<>>]
Exc(e, by) == [exc |-> e, by |-> by, args |-> <<>>]
ExcArgs(e, by, args) == [exc |-> e, by |-> by, args |-> args]
Call(name, arg, pre) == [name |-> name, arg |-> arg, pre |-> pre]

RuntimeInit ==
    /\ name_to_config = <<>>
    /\ config = None
    /\ returned = None
    /\ op = Call("init", None, None)
    /\ raised = NoExc
    /\ printed = {}

StubIdle == self_config = None
TypeIdle == ann = None
LoadIdle ==
    /\ local_mod_path = None
    /\ should_import = "unset"
    /\ sys_modules = {}
    /\ executed = <<>>
    /\ scanned = {}
    /\ verbose = FALSE

Init == RuntimeInit /\ StubIdle /\ TypeIdle /\ LoadIdle

\* Sections register while their modules load, before the program builds
\* any configuration instance.
ConfigClass(name, c) ==
    /\ op.name \in {"init", "config_class"}
    /\ name \in Names(name_to_config) \/ Len(name_to_config) < MaxSections
    /\ LET r == decorator(name_to_config, name, c)
       IN  /\ name_to_config' = r.reg
           /\ raised' = IF r.ok THEN NoExc ELSE ExcArgs("ValueError", "config_class", r.args)
    /\ op' = Call("config_class", [name |-> name, cls |-> c], None)
    /\ printed' = {}
    /\ UNCHANGED <<config, returned, stubVars, typeVars, loadVars>>

MakeConfig ==
    /\ LET r == make_config(name_to_config)
       IN  /\ config' = IF r.ok THEN r.o ELSE config
           /\ raised' = IF r.ok THEN NoExc ELSE Exc("AttributeError", "make_config")
    /\ op' = Call("make_config", None, None)
    /\ printed' = {}
    /\ returned' = None
    /\ UNCHANGED <<name_to_config, stubVars, typeVars, loadVars>>

UpdateConfig(config_dict) ==
    /\ config # None
    /\ LET r == update_config(config, config_dict)
       IN  /\ config' = r.o
           /\ raised' = IF r.ok THEN NoExc ELSE Exc("AttributeError", "update_config")
    /\ op' = Call("update_config", config_dict, config)
    /\ printed' = {}
    /\ returned' = None
    /\ UNCHANGED <<name_to_config, stubVars, typeVars, loadVars>>

CheckConfig ==
    /\ config # None
    /\ LET r == check_config(config, name_to_config)
       IN  /\ raised' = IF r.ok THEN NoExc ELSE Exc("AttributeError", "check_config")
           /\ printed' = r.printed
    /\ op' = Call("check_config", None, None)
    /\ returned' = None
    /\ UNCHANGED <<name_to_config, config, stubVars, typeVars, loadVars>>

ConfigToDict ==
    /\ config # None
    /\ LET r == config_to_dict(config, name_to_config)
       IN  /\ returned' = IF r.ok THEN [k |-> "dict", d |-> r.o] ELSE None
           /\ raised' = IF r.ok THEN NoExc ELSE Exc("AttributeError", "config_to_dict")
    /\ op' = Call("config_to_dict", None, None)
    /\ printed' = {}
    /\ UNCHANGED <<name_to_config, config, stubVars, typeVars, loadVars>>

ConfigFromDict(config_dict) ==
    /\ LET r == config_from_dict(config_dict, name_to_config)
       IN  /\ config' = IF r.ok THEN r.o ELSE config
           /\ raised' = IF r.ok THEN NoExc ELSE Exc("AttributeError", r.by)
           /\ printed' = r.printed
    /\ op' = Call("config_from_dict", config_dict, None)
    /\ returned' = None
    /\ UNCHANGED <<name_to_config, stubVars, typeVars, loadVars>>

Next ==
    \/ \E name \in SectionNames, c \in SectionClasses : ConfigClass(name, c)
    \/ MakeConfig
    \/ \E d \in UpdateDicts : UpdateConfig(d)
    \/ CheckConfig
    \/ ConfigToDict
    \/ \E d \in UpdateDicts \cup (IF returned = None THEN {} ELSE {returned.d}) : ConfigFromDict(d)

Spec == Init /\ [][Next]_vars

(* --------------------------- type renderer ---------------------------- *)

\* Type descriptors: a plain class, type(None), typing.Any, or a
\* parameterized type with an __origin__ and its __args__.
PlainClass(name, module) == [tag |-> "class", name |-> name, module |-> module]
NoneType == [tag |-> "NoneType", name |-> "NoneType", module |-> "builtins"]
typing_Any == [tag |-> "Any", name |-> "Any", module |-> "typing"]
Generic(origin, args) == [tag |-> "generic", origin |-> origin, args |-> args]
Origin(name, module) == [name |-> name, module |-> module]
Union == Origin("Union", "typing")
Dict == Origin("Dict", "typing")
List == Origin("List", "typing")
HasOrigin(t) == t.tag = "generic"

\* ", ".join(parts), each part a sequence of tokens
RECURSIVE JoinComma(_)
JoinComma(parts) ==
    IF parts = <<>> THEN <<>>
    ELSE IF Len(parts) = 1 THEN parts[1]
    ELSE parts[1] \o <<",">> \o JoinComma(Tail(parts))

\* sum(lists, [])
RECURSIVE Concat(_)
Concat(lists) == IF lists = <<>> THEN <<>> ELSE Head(lists) \o Concat(Tail(lists))

RECURSIVE SelectSeqNot(_, _)
SelectSeqNot(args, x) ==
    IF args = <<>> THEN <<>>
    ELSE IF Head(args) = x THEN SelectSeqNot(Tail(args), x)
    ELSE <<Head(args)>> \o SelectSeqNot(Tail(args), x)

\* A renderer that calls every union with the absence type Optional.
WhichCodeStr_anyNone(args) ==
    IF NoneType \in Range(args) THEN "Optional" ELSE "Union"

\* which = "Optional" if type(None) in args and len(args) == 2 else "Union"
WhichCodeStr(args) ==
    IF NoneType \in Range(args) /\ Len(args) = 2 THEN "Optional" ELSE "Union"

\* The same test as get_typing_imports spells it.
WhichImport(args) ==
    IF NoneType \in Range(args) /\ Len(args) = 2 THEN "Optional" ELSE "Union"

\* The rendered type as a sequence of tokens.
RECURSIVE type_to_code_str(_)
type_to_code_str(t) ==
    IF HasOrigin(t)
    THEN IF t.origin = Union
         THEN LET which == WhichCodeStr(t.args)
                  kept == IF which = "Union" THEN t.args ELSE SelectSeqNot(t.args, NoneType)
              IN  <<which, "[">>
                  \o JoinComma([i \in DOMAIN kept |-> type_to_code_str(kept[i])])
                  \o <<"]">>
         ELSE IF t.origin = Dict
         THEN <<"Dict", "[">> \o type_to_code_str(t.args[1]) \o <<",">>
              \o type_to_code_str(t.args[2]) \o <<"]">>
         ELSE IF t.origin = Origin("Any", "typing") THEN <<"Any">>
         ELSE <<t.origin.name, "[">>
              \o JoinComma([i \in DOMAIN t.args |-> type_to_code_str(t.args[i])])
              \o <<"]">>
    ELSE IF t = NoneType THEN <<"None">>
    ELSE <<t.name>>

RECURSIVE get_typing_imports(_)
get_typing_imports(t) ==
    IF HasOrigin(t)
    THEN IF t.origin = Union
         THEN <<WhichImport(t.args)>>
              \o Concat([i \in DOMAIN t.args |-> get_typing_imports(t.args[i])])
         ELSE IF t.origin = Dict
         THEN <<"Dict">> \o get_typing_imports(t.args[1]) \o get_typing_imports(t.args[2])
         ELSE (IF t.origin.module # "builtins" THEN <<t.origin.name>> ELSE <<>>)
              \o Concat([i \in DOMAIN t.args |-> get_typing_imports(t.args[i])])
    ELSE IF t = typing_Any THEN <<"Any">>
    ELSE <<>>

(* ---- the renderer applied to the descriptors typing can build ---- *)

MaxTypeDepth == 2

Atoms == {PlainClass("int", "builtins"), PlainClass("str", "builtins"), NoneType, typing_Any}

RECURSIVE TypeDepth(_)
TypeDepth(t) ==
    IF ~HasOrigin(t) THEN 0
    ELSE LET ds == {TypeDepth(t.args[i]) : i \in DOMAIN t.args}
         IN  1 + (CHOOSE m \in ds : \A x \in ds : x <= m)

IsUnion(t) == HasOrigin(t) /\ t.origin = Union

TypeInit ==
    /\ ann \in Atoms
    /\ RuntimeInit /\ StubIdle /\ LoadIdle

CanWrap == op.name = "init" /\ TypeDepth(ann) < MaxTypeDepth

\* typing flattens a union inside a union and drops repeated variants, so a
\* union is built only over distinct variants that are no unions themselves.
WrapUnion(others, annFirst) ==
    /\ CanWrap
    /\ ~IsUnion(ann)
    /\ \A i \in DOMAIN others : others[i] # ann
    /\ \A i, j \in DOMAIN others : i # j => others[i] # others[j]
    /\ ann' = Generic(Union, IF annFirst THEN <<ann>> \o others ELSE others \o <<ann>>)
    /\ UNCHANGED <<name_to_config, config, returned, op, raised, printed, stubVars, loadVars>>

WrapDict(key) ==
    /\ CanWrap
    /\ ann' = Generic(Dict, <<key, ann>>)
    /\ UNCHANGED <<name_to_config, config, returned, op, raised, printed, stubVars, loadVars>>

WrapGeneric(origin) ==
    /\ CanWrap
    /\ ann' = Generic(origin, <<ann>>)
    /\ UNCHANGED <<name_to_config, config, returned, op, raised, printed, stubVars, loadVars>>

RenderType ==
    /\ op.name = "init"
    /\ op' = Call("type_to_code_str", None, None)
    /\ returned' = [k |-> "rendered",
                    str_ann |-> type_to_code_str(ann),
                    typing_imports |-> get_typing_imports(ann)]
    /\ UNCHANGED <<name_to_config, config, raised, printed, ann, stubVars, loadVars>>

TypeNext ==
    \/ \E others \in UNION {[1..n -> Atoms] : n \in 1..2}, annFirst \in BOOLEAN :
          WrapUnion(others, annFirst)
    \/ \E key \in Atoms : WrapDict(key)
    \/ \E origin \in {List, Origin("list", "builtins")} : WrapGeneric(origin)
    \/ RenderType

SpecType == TypeInit /\ [][TypeNext]_vars

\* C9 ------------------------------------------------------------------

RECURSIVE Subterms(_)
Subterms(t) ==
    {t} \cup (IF HasOrigin(t) THEN UNION {Subterms(t.args[i]) : i \in DOMAIN t.args} ELSE {})

Occurs(part, whole) ==
    \E i \in 1..(Len(whole) - Len(part) + 1) : SubSeq(whole, i, i + Len(part) - 1) = part

IsOptionalPattern(u) == Len(u.args) = 2 /\ \E i \in 1..2 : u.args[i] = NoneType

\* What the claim says a union renders as, given its variants' renderings.
UnionRendering(u) ==
    IF IsOptionalPattern(u)
    THEN <<"Optional", "[">>
         \o type_to_code_str(IF u.args[1] = NoneType THEN u.args[2] ELSE u.args[1])
         \o <<"]">>
    ELSE <<"Union", "[">>
         \o JoinComma([i \in DOMAIN u.args |-> type_to_code_str(u.args[i])])
         \o <<"]">>

\* C9: every union in a descriptor, nested or not, renders as Optional[T]
\* (absence type elided) when it has exactly two variants one of which is the
\* absence type, and as Union[v1, v2, ...] listing all its variants otherwise;
\* get_typing_imports reports the matching name.
C9_UnionRendering ==
    op.name = "type_to_code_str" =>
        /\ \A u \in {v \in Subterms(ann) : IsUnion(v)} :
              /\ Occurs(UnionRendering(u), returned.str_ann)
              /\ (IF IsOptionalPattern(u) THEN "Optional" ELSE "Union")
                     \in Range(returned.typing_imports)
              /\ type_to_code_str(u) = UnionRendering(u)
              /\ Head(get_typing_imports(u)) = Head(UnionRendering(u))
        /\ IsUnion(ann) => returned.str_ann = UnionRendering(ann)
        /\ ("Optional" \in Range(returned.typing_imports))
              <=> (\E u \in Subterms(ann) : IsUnion(u) /\ IsOptionalPattern(u))
        /\ ("Union" \in Range(returned.typing_imports))
              <=> (\E u \in Subterms(ann) : IsUnion(u) /\ ~IsOptionalPattern(u))

\* A three-variant union holding the absence type, nested inside another
\* parameterized type, was rendered.
C9_Witness ==
    /\ op.name = "type_to_code_str"
    /\ ~IsUnion(ann)
    /\ \E u \in Subterms(ann) :
          IsUnion(u) /\ Len(u.args) = 3 /\ NoneType \in Range(u.args)
    /\ "Union" \in Range(returned.str_ann)

(* --------------------------- stub generator --------------------------- *)

\* The schema tree: a namespace is a defaultdict, kept as the sequence of
\* its [key, val] entries in insertion order; a leaf is a ConfigAttr.
Ns(d) == [k |-> "ns", d |-> d]
ConfigAttr(type, docstring) == [k |-> "attr", type |-> type, docstring |-> docstring]
IsDict(v) == v.k = "ns"
DictHas(d, key) == \E i \in DOMAIN d : d[i].key = key
DictGet(d, key) == (CHOOSE e \in Range(d) : e.key = key).val

\* cobj.__annotations__.items(): the annotated names with their types
AnnotationItems(cls) ==
    CASE cls = "Config" -> <<>>
      [] cls = "A" -> <<[name |-> <<"x">>, type |-> PlainClass("int", "builtins")]>>
      [] cls = "B" -> <<[name |-> <<"y">>,
                         type |-> Generic(Union, <<PlainClass("float", "builtins"), NoneType>>)]>>

\* The description numpydoc finds for an attribute in the class docstring
Docstring(cls, name) == IF cls = "A" /\ name = <<"x">> THEN "doc" ELSE ""

\* Python strings of the typing names, for sorted()
Chars(name) ==
    CASE name = "Any" -> <<"A", "n", "y">>
      [] name = "Dict" -> <<"D", "i", "c", "t">>
      [] name = "List" -> <<"L", "i", "s", "t">>
      [] name = "Optional" -> <<"O", "p", "t", "i", "o", "n", "a", "l">>
      [] name = "Union" -> <<"U", "n", "i", "o", "n">>

\* d[keys[0]][keys[1]]...: a defaultdict creates what is missing; indexing a
\* ConfigAttr with a name raises TypeError.  Returns the tree with the path
\* created.
RECURSIVE recursive_dd_get(_, _)
recursive_dd_get(d, keys) ==
    IF keys = <<>> THEN Ok(d)
    ELSE IF ~IsDict(d) THEN Raise(d)
    ELSE LET child == IF DictHas(d.d, keys[1]) THEN DictGet(d.d, keys[1]) ELSE Ns(<<>>)
             r == recursive_dd_get(child, Tail(keys))
         IN  [ok |-> r.ok, o |-> Ns(DictPut(d.d, keys[1], r.o))]

\* attr_dict[attr_name] = attr, attr_dict being the node at keys; a
\* ConfigAttr there takes no item assignment (TypeError).
RECURSIVE attr_dict_set(_, _, _, _)
attr_dict_set(d, keys, attr_name, attr) ==
    IF keys = <<>>
    THEN IF IsDict(d) THEN Ok(Ns(DictPut(d.d, attr_name, attr))) ELSE Raise(d)
    ELSE LET r == attr_dict_set(DictGet(d.d, keys[1]), Tail(keys), attr_name, attr)
         IN  [ok |-> r.ok, o |-> Ns(DictPut(d.d, keys[1], r.o))]

\* The fields one section gives, in the order they are assigned: the public
\* attributes found by dir() with the type of their value, then the
\* annotations, which override them.
InferredFields(cls) ==
    LET names == SortedNames({n \in DOMAIN ClassAttrs(cls) : ~StartsWithDunder(n)})
    IN  [i \in DOMAIN names |->
            [name |-> names[i], attr |-> ConfigAttr(<<"int">>, Docstring(cls, names[i]))]]

DeclaredType(t) == IF t.tag = "class" \/ t.tag = "NoneType" THEN <<t.name>> ELSE type_to_code_str(t)

DeclaredFields(cls) ==
    LET items == AnnotationItems(cls)
    IN  [i \in DOMAIN items |->
            [name |-> items[i].name,
             attr |-> ConfigAttr(DeclaredType(items[i].type), Docstring(cls, items[i].name))]]

SectionFields(cls) == InferredFields(cls) \o DeclaredFields(cls)

SectionTypingImports(cls) ==
    LET items == AnnotationItems(cls)
    IN  Concat([i \in DOMAIN items |->
                   IF items[i].type.tag = "generic" THEN get_typing_imports(items[i].type)
                   ELSE <<>>])

\* from <module> import <name> for every type that is no builtin
SectionImports(cls) ==
    {[module |-> e.type.module, name |-> e.type.name] :
        e \in {x \in Range(AnnotationItems(cls)) :
                  x.type.tag = "class" /\ x.type.module # "builtins"}}

RECURSIVE set_fields(_, _, _)
set_fields(tree, keys, fields) ==
    IF fields = <<>> THEN Ok(tree)
    ELSE LET r == attr_dict_set(tree, keys, Head(fields).name, Head(fields).attr)
         IN  IF r.ok THEN set_fields(r.o, keys, Tail(fields)) ELSE r

\* The loop of output_stub over _name_to_config.items()
RECURSIVE build_tree(_, _)
build_tree(tree, reg) ==
    IF reg = <<>> THEN Ok(tree)
    ELSE LET keys == IF Head(reg).name = BaseName THEN <<>> ELSE Split(Head(reg).name)
             g == recursive_dd_get(tree, keys)
         IN  IF ~g.ok THEN g
             ELSE LET r == set_fields(g.o, keys, SectionFields(Head(reg).cls))
                  IN  IF r.ok THEN build_tree(r.o, Tail(reg)) ELSE r

\* key=lambda x: "_" + x[0] if not isinstance(x[1], dict) else x[0]
SortKey(name, v) == IF ~IsDict(v) THEN <<"_">> \o name ELSE name

Line(indent, kind, name, type) == [indent |-> indent, kind |-> kind, name |-> name, type |-> type]

\* f(name, d, indentlevel): the lines of one class block
RECURSIVE f(_, _, _)
f(name, d, indentlevel) ==
    LET items == Sorted([i \in DOMAIN d.d |->
                            [key |-> SortKey(d.d[i].key, d.d[i].val),
                             name |-> d.d[i].key, v |-> d.d[i].val]])
        block(it) ==
            IF IsDict(it.v) THEN f(it.name, it.v, indentlevel + 1)
            ELSE <<Line(indentlevel + 1, "field", it.name, it.v.type)>>
                 \o (IF it.v.docstring # ""
                     THEN <<Line(indentlevel + 1, "docstring", it.name, <<it.v.docstring>>)>>
                     ELSE <<>>)
    IN  <<Line(indentlevel, "class", name, <<>>)>>
        \o Concat([i \in DOMAIN items |-> block(items[i])])
        \o (IF Len(d.d) = 0 THEN <<Line(indentlevel + 1, "ellipsis", <<>>, <<>>)>> ELSE <<>>)

RECURSIVE EmptyClasses(_, _)
EmptyClasses(name, d) ==
    (IF Len(d.d) = 0 THEN {name} ELSE {})
    \cup UNION {EmptyClasses(e.key, e.val) : e \in {x \in Range(d.d) : IsDict(x.val)}}

\* sorted(set(typing_imports))
SortedTypingImports(names) ==
    LET S == {Chars(n) : n \in Range(names)}
    IN  SortedNames(S)

\* Returns [ok, tree, stub, printed]: the stub's text is the typing import
\* line, the import lines and the class tree between the fixed banner and
\* trailer.
output_stub(tree, reg) ==
    LET b == build_tree(tree, reg)
    IN  IF ~b.ok THEN [ok |-> FALSE, tree |-> b.o, stub |-> None, printed |-> {}]
        ELSE [ok |-> TRUE,
              tree |-> b.o,
              stub |-> [typing_imports |->
                            SortedTypingImports(Concat([i \in DOMAIN reg |->
                                SectionTypingImports(reg[i].cls)])),
                        imports |-> UNION {SectionImports(reg[i].cls) : i \in DOMAIN reg},
                        classes |-> f(<<"C", "o", "n", "f", "i", "g">>, b.o, 0)],
              printed |-> EmptyClasses(<<"C", "o", "n", "f", "i", "g">>, b.o)]

StubSectionNames ==
    {BaseName, <<"a">>, <<"a", ".", "b">>, <<"N">>, <<"_", "x">>}

StubInit ==
    /\ RuntimeInit
    /\ self_config = Ns(<<>>)
    /\ TypeIdle /\ LoadIdle

\* One generation pass per StubMaker, after the sections registered.
OutputStub ==
    /\ op.name \in {"init", "config_class"}
    /\ LET r == output_stub(self_config, name_to_config)
       IN  /\ self_config' = r.tree
           /\ returned' = IF r.ok THEN [k |-> "stub", stub |-> r.stub] ELSE None
           /\ raised' = IF r.ok THEN NoExc ELSE Exc("TypeError", "output_stub")
           /\ printed' = r.printed
    /\ op' = Call("output_stub", None, None)
    /\ UNCHANGED <<name_to_config, config, typeVars, loadVars>>

StubNext ==
    \/ \E name \in StubSectionNames, c \in SectionClasses : ConfigClass(name, c)
    \/ OutputStub

SpecStub == StubInit /\ [][StubNext]_vars

\* C7 ------------------------------------------------------------------

\* Lines i < j are entries of the same block: same indent, nothing shallower
\* between them.
SameBlock(lines, i, j) ==
    /\ i < j
    /\ lines[i].indent = lines[j].indent
    /\ \A m \in i..j : lines[m].indent >= lines[i].indent

\* C7: in every emitted block all leaf fields come before all nested
\* namespaces, leaves ascending by name among themselves and namespaces
\* ascending by name among themselves, whatever characters the names start
\* with.
C7_LeavesBeforeNamespaces ==
    (op.name = "output_stub" /\ raised = NoExc) =>
        LET lines == returned.stub.classes
        IN  \A i, j \in DOMAIN lines :
                SameBlock(lines, i, j) =>
                    /\ ~(lines[i].kind = "class" /\ lines[j].kind = "field")
                    /\ (lines[i].kind = "field" /\ lines[j].kind = "field")
                          => StrLess(lines[i].name, lines[j].name)
                    /\ (lines[i].kind = "class" /\ lines[j].kind = "class")
                          => StrLess(lines[i].name, lines[j].name)

\* C8 ------------------------------------------------------------------

Orderings(s) == {t \in [DOMAIN s -> Range(s)] : Range(t) = Range(s)}

\* C8: the stub generated from a set of registered sections is the same
\* whatever the order in which the sections were registered.
C8_StubIndependentOfRegistrationOrder ==
    op.name = "output_stub" =>
        \A reg \in Orderings(name_to_config) :
            LET r == output_stub(Ns(<<>>), reg)
            IN  /\ r.ok <=> (raised = NoExc)
                /\ r.ok => r.stub = returned.stub

(* -------------------------- discovery visitor ------------------------- *)

\* pathlib.Path(local_path): the directories, and the file name as stem and
\* suffix
Path(dirs, stem, suffix) == [dirs |-> dirs, stem |-> stem, suffix |-> suffix]
PathName(p) == p.stem \o p.suffix
PathParts(p) == p.dirs \o <<PathName(p)>>

dot_py == <<".", "p", "y">>
src == <<"s", "r", "c">>

\* ".".join(parts[1:-1]) + "." + name[: -len(".py")]
module_name(p) ==
    LET parts == PathParts(p)
        name == PathName(p)
    IN  Join(SubSeq(parts, 2, Len(parts) - 1)) \o <<".">>
        \o SubSeq(name, 1, Len(name) - Len(dot_py))

\* The assertion of finalize_module
PathAccepted(p) == p.suffix = dot_py /\ PathParts(p)[1] = src

\* module_name in sys.modules
AlreadyLoaded(name, mods) == name \in mods

\* A decorator expression as the test of visit_ClassDef sees it
Decorator(isCall, funcIsName, funcId, nargs, arg0IsConstant) ==
    [isCall |-> isCall, funcIsName |-> funcIsName, funcId |-> funcId,
     nargs |-> nargs, arg0IsConstant |-> arg0IsConstant]

IsMarker(dec) ==
    /\ dec.isCall
    /\ dec.funcIsName
    /\ dec.funcId = "config_class"
    /\ dec.nargs = 1
    /\ dec.arg0IsConstant

ClassDef(decorator_list, body) == [decorator_list |-> decorator_list, body |-> body]

\* Every decorator the visit of node meets: its own, then through
\* generic_visit those of the classes nested in it.
RECURSIVE Visited(_)
Visited(node) ==
    Range(node.decorator_list) \cup UNION {Visited(node.body[i]) : i \in DOMAIN node.body}

\* What an executed file is in the log: the file by its path below src
\* without the suffix, the name it runs under, and who ran it.
Execution(file, name, by) == [file |-> file, name |-> name, by |-> by]

\* The import statement of the host: the packages on the way and then the
\* module are executed unless sys.modules has them.  Returns [mods, log].
RECURSIVE import_module(_, _, _, _)
import_module(segs, n, mods, log) ==
    IF n > Len(segs) THEN [mods |-> mods, log |-> log]
    ELSE LET name == Join(SubSeq(segs, 1, n))
         IN  IF name \in mods THEN import_module(segs, n + 1, mods, log)
             ELSE import_module(segs, n + 1, mods \cup {name},
                                Append(log, Execution(SubSeq(segs, 1, n), name, "import")))

RECURSIVE import_all(_, _, _)
import_all(names, mods, log) ==
    IF names = <<>> THEN [mods |-> mods, log |-> log]
    ELSE LET r == import_module(Split(Head(names)), 1, mods, log)
         IN  import_all(Tail(names), r.mods, r.log)

\* --- inputs ---

LocalPaths ==
    {Path(<<src, <<"a">>>>, <<"b">>, dot_py),
     Path(<<src>>, <<"b">>, dot_py),
     Path(<<<<"l", "i", "b">>, <<"a">>>>, <<"b">>, dot_py),
     Path(<<src, <<"a">>>>, <<"b">>, <<".", "t", "x", "t">>)}

\* What the files under src import: the modules of the same tree
ImportedNames == {<<"a", ".", "b">>, <<"b">>}

Decorators ==
    {Decorator(TRUE, TRUE, "config_class", 1, TRUE),      \* @config_class("a")
     Decorator(TRUE, TRUE, "config_class", 1, FALSE),     \* @config_class(NAME)
     Decorator(TRUE, TRUE, "config_class", 2, TRUE),      \* @config_class("a", "b")
     Decorator(TRUE, FALSE, "config_class", 1, TRUE),     \* @foliconf.config_class("a")
     Decorator(FALSE, FALSE, "config_class", 0, FALSE)}   \* @config_class

ClassDefs ==
    {ClassDef(<<d>>, <<>>) : d \in Decorators}
    \cup {ClassDef(<<>>, <<ClassDef(<<d>>, <<>>)>>) : d \in Decorators}

\* --- actions ---

LoadInit ==
    /\ RuntimeInit
    /\ StubIdle /\ TypeIdle
    /\ local_mod_path = None
    /\ should_import = "unset"
    /\ sys_modules = {}
    /\ executed = <<>>
    /\ scanned = {}
    /\ verbose \in BOOLEAN

StartModule(local_path) ==
    /\ local_mod_path' = local_path
    /\ should_import' = "False"
    /\ scanned' = {}
    /\ op' = Call("start_module", local_path, None)
    /\ raised' = NoExc
    /\ printed' = {}
    /\ UNCHANGED <<name_to_config, config, returned, sys_modules, executed, verbose,
                   stubVars, typeVars>>

VisitClassDef(node) ==
    /\ should_import' = IF \E dec \in Visited(node) : IsMarker(dec) THEN "True"
                        ELSE should_import
    /\ printed' = IF verbose THEN {dec \in Visited(node) : IsMarker(dec)} ELSE {}
    /\ scanned' = scanned \cup Visited(node)
    /\ op' = Call("visit_ClassDef", None, None)
    /\ raised' = NoExc
    /\ UNCHANGED <<name_to_config, config, returned, local_mod_path, sys_modules,
                   executed, verbose, stubVars, typeVars>>

\* The outcome of finalize_module: an exception or none, and the modules
\* table and log after it.  imports are what the executed file imports.
finalize_module(imports) ==
    LET quiet(e) == [raised |-> e, mods |-> sys_modules, log |-> executed, did |-> "nothing"]
    IN  IF should_import = "unset" THEN quiet(Exc("AttributeError", "finalize_module"))
        ELSE IF should_import = "False" THEN quiet(NoExc)
        ELSE IF local_mod_path = None THEN quiet(Exc("AttributeError", "finalize_module"))
        ELSE IF ~PathAccepted(local_mod_path)
             THEN quiet(Exc("AssertionError", "finalize_module"))
        ELSE LET name == module_name(local_mod_path)
                 parts == PathParts(local_mod_path)
                 file == SubSeq(parts, 2, Len(parts) - 1) \o <<local_mod_path.stem>>
             IN  IF AlreadyLoaded(name, sys_modules)
                 THEN [raised |-> NoExc, mods |-> sys_modules, log |-> executed,
                       did |-> "skipped"]
                 ELSE LET r == import_all(SortedNames(imports),
                                          sys_modules \cup {name},
                                          Append(executed,
                                                 Execution(file, name, "finalize_module")))
                      IN  [raised |-> NoExc, mods |-> r.mods, log |-> r.log,
                           did |-> "loaded"]

FinalizeModule(imports) ==
    LET r == finalize_module(imports)
    IN  /\ sys_modules' = r.mods
        /\ executed' = r.log
        /\ raised' = r.raised
        /\ op' = Call("finalize_module", r.did, None)
        /\ printed' = {}
        /\ UNCHANGED <<name_to_config, config, returned, local_mod_path, should_import,
                       scanned, verbose, stubVars, typeVars>>

LoadNext ==
    \/ \E local_path \in LocalPaths : StartModule(local_path)
    \/ \E node \in ClassDefs : VisitClassDef(node)
    \/ \E imports \in SUBSET ImportedNames : FinalizeModule(imports)

SpecLoad == LoadInit /\ [][LoadNext]_vars

\* C10 -----------------------------------------------------------------

\* The marker config_class(<single literal>)
WellFormedMarker == Decorator(TRUE, TRUE, "config_class", 1, TRUE)

\* The dotted name of the module a file below src is
LogicalName(e) == Join(e.file)

\* C10: over any sequence of start_module / visit_ClassDef / finalize_module
\* calls, finalize_module executes a file only if the scan since
\* start_module met a well-formed marker; malformed markers never count and
\* raise nothing; and each logical module name is executed at most once:
\* finalize_module skips the load of a module the table of loaded modules
\* already has.
C10_IdempotentLoad ==
    /\ (op.name = "finalize_module" /\ op.arg = "loaded") => WellFormedMarker \in scanned
    /\ should_import = "True" => WellFormedMarker \in scanned
    /\ op.name = "visit_ClassDef" => raised = NoExc
    /\ \A i, j \in DOMAIN executed :
          i < j => LogicalName(executed[i]) # LogicalName(executed[j])

(* ---------------------- claims on the registry ------------------------ *)

\* C1: registering a dotted path that is already in the registry raises a
\* ValueError naming the new class and the prior owner and leaves the
\* registry unchanged; every binding made stays as it was first made, and no
\* path is bound twice.
C1_DuplicateRegistrationRejected ==
    [][/\ \A i \in DOMAIN name_to_config :
              i \in DOMAIN name_to_config' /\ name_to_config'[i] = name_to_config[i]
       /\ \A i, j \in DOMAIN name_to_config' :
              i # j => name_to_config'[i].name # name_to_config'[j].name
       /\ (op'.name = "config_class" /\ op'.arg.name \in Names(name_to_config))
              => /\ name_to_config' = name_to_config
                 /\ raised'.exc = "ValueError"
                 /\ raised'.args = <<op'.arg.name, op'.arg.cls,
                                     RegGet(name_to_config, op'.arg.name, None)>>
       /\ (op'.name = "config_class" /\ op'.arg.name \notin Names(name_to_config))
              => /\ raised' = NoExc
                 /\ name_to_config' = Append(name_to_config, op'.arg)]_vars

\* A second class was offered for a bound path and the first owner is kept.
C1_Witness ==
    /\ op.name = "config_class"
    /\ raised.exc = "ValueError"
    /\ op.arg.cls # RegGet(name_to_config, op.arg.name, None)
    /\ Len(name_to_config) = 2

(* ------------------ claims on the runtime helpers --------------------- *)

Prefix(p, n) == SubSeq(p, 1, n)
Exists(c, q) == q = <<>> \/ recursive_getattr(c, q).ok
Node(c, q) == IF q = <<>> THEN c ELSE recursive_getattr(c, q).o
NonRoot(reg) == {e \in Range(reg) : e.name # BaseName}

\* The class that owns position q of a fresh instance: the class registered
\* there, the root's class at the root, the generic base elsewhere.
OwnerCls(reg, q) ==
    IF q = <<>> THEN RegGet(reg, BaseName, Config_cls) ELSE RegGet(reg, Join(q), Config_cls)

\* The segments that registered paths put right under position q.
Children(reg, q) ==
    {Split(h.name)[Len(q) + 1] :
        h \in {s \in NonRoot(reg) : /\ Len(Split(s.name)) > Len(q)
                                    /\ Prefix(Split(s.name), Len(q)) = q}}

\* A registered path runs through a position that holds a class attribute
\* (a leaf) and is no section itself.
Collides(reg) ==
    \E e \in NonRoot(reg) :
        LET p == Split(e.name)
        IN  \E n \in 1..(Len(p) - 1) :
                /\ Join(Prefix(p, n)) \notin Names(reg)
                /\ p[n] \in DOMAIN ClassAttrs(OwnerCls(reg, Prefix(p, n - 1)))

\* Two instances look the same through getattr: same classes, same
\* attribute names, same leaf values.
RECURSIVE Equivalent(_, _)
Equivalent(c1, c2) ==
    IF IsObj(c1) /\ IsObj(c2)
    THEN /\ c1.cls = c2.cls
         /\ Dir(c1) = Dir(c2)
         /\ \A n \in Dir(c1) : Equivalent(GetAttr(c1, n), GetAttr(c2, n))
    ELSE c1 = c2

SameMapping(d1, d2) == Range(d1) = Range(d2)

\* C2: config_from_dict(config_to_dict(make_config())) returns an instance
\* equivalent to make_config(): same namespace structure, same leaf values,
\* and the same flat mapping under config_to_dict.  (On a registry for which
\* make_config itself raises there is no instance to compare with.)
C2_RoundTrip ==
    LET m == make_config(name_to_config)
        d == config_to_dict(m.o, name_to_config)
    IN  (op.name = "config_from_dict" /\ m.ok /\ d.ok /\ op.arg = d.o)
            => /\ raised = NoExc
               /\ Equivalent(config, m.o)
               /\ LET d2 == config_to_dict(config, name_to_config)
                  IN  d2.ok /\ SameMapping(d2.o, d.o)
               /\ \A i \in DOMAIN d.o :
                      LET g == recursive_getattr(config, Split(d.o[i].key))
                      IN  g.ok /\ g.o = d.o[i].val

\* The round trip ran over two sections, one nested under an intermediate
\* namespace, and carried leaf values.
C2_Witness ==
    LET m == make_config(name_to_config)
        d == config_to_dict(m.o, name_to_config)
    IN  /\ op.name = "config_from_dict" /\ m.ok /\ d.ok /\ op.arg = d.o
        /\ raised = NoExc
        /\ Len(d.o) >= 2
        /\ \E i \in DOMAIN d.o : Len(Split(d.o[i].key)) >= 3

\* C3: make_config() returns a root instance in which walking each
\* registered non-root path reaches an instance of the class registered for
\* it, every intermediate segment that is no section being a bare instance of
\* the generic base class, whatever the registration order and also when one
\* path is a prefix of another.  It raises exactly when a path runs through
\* a leaf (Collides), the fatal case of C5.
C3_MakeConfigAttachesSections ==
    op.name = "make_config" =>
        /\ (raised = NoExc) <=> ~Collides(name_to_config)
        /\ raised = NoExc =>
              /\ config.cls = RegGet(name_to_config, BaseName, Config_cls)
              /\ DOMAIN config.d = Children(name_to_config, <<>>)
              /\ \A e \in NonRoot(name_to_config) :
                    LET p == Split(e.name)
                    IN  \A n \in 1..Len(p) :
                            LET g == recursive_getattr(config, Prefix(p, n))
                            IN  /\ g.ok
                                /\ IsObj(g.o)
                                /\ g.o.cls = OwnerCls(name_to_config, Prefix(p, n))
                                /\ DOMAIN g.o.d = Children(name_to_config, Prefix(p, n))

\* make_config returned with a section registered under another section and
\* one reached through an intermediate namespace that was created for it.
C3_Witness ==
    /\ op.name = "make_config"
    /\ raised = NoExc
    /\ \E e, h \in NonRoot(name_to_config) :
          /\ e # h
          /\ Len(Split(e.name)) < Len(Split(h.name))
          /\ Prefix(Split(h.name), Len(Split(e.name))) = Split(e.name)
          /\ Len(Split(h.name)) > Len(Split(e.name)) + 1

\* No existing position on the way to keys holds a primitive.
NoLeafOnPath(c, keys) ==
    \A n \in 0..(Len(keys) - 1) : Exists(c, Prefix(keys, n)) => IsObj(Node(c, Prefix(keys, n)))

\* What one entry (keys -> v) does to the instance c, giving c2.
EntryApplied(c, keys, v, c2) ==
    /\ Exists(c2, keys)
    /\ Node(c2, keys) = v
    /\ \A n \in 0..(Len(keys) - 1) :
          LET q == Prefix(keys, n)
              nxt == keys[n + 1]
          IN  /\ Exists(c2, q)
              /\ IsObj(Node(c2, q))
              /\ IF Exists(c, q)
                 THEN /\ Node(c2, q).cls = Node(c, q).cls
                      /\ Dir(Node(c2, q)) = Dir(Node(c, q)) \cup {nxt}
                      /\ \A a \in Dir(Node(c, q)) \ {nxt} :
                            GetAttr(Node(c2, q), a) = GetAttr(Node(c, q), a)
                 ELSE /\ Node(c2, q).cls = Config_cls
                      /\ Dir(Node(c2, q)) = {nxt}

\* The entries of config_dict applied in order from c end in final; an entry
\* whose path runs through a primitive raises and stops the call there.
RECURSIVE EntriesApplied(_, _, _, _)
EntriesApplied(c, config_dict, final, exc) ==
    IF config_dict = <<>> THEN final = c /\ exc = NoExc
    ELSE LET keys == Split(Head(config_dict).key)
             r == recursive_creative_setattr(c, keys, Config_cls, Head(config_dict).val)
         IN  IF NoLeafOnPath(c, keys)
             THEN /\ r.ok
                  /\ EntryApplied(c, keys, Head(config_dict).val, r.o)
                  /\ EntriesApplied(r.o, Tail(config_dict), final, exc)
             ELSE ~r.ok /\ final = c /\ exc.exc = "AttributeError"

\* C4: update_config(instance, updates) takes the entries in order; for
\* each it creates every absent intermediate segment as a namespace object,
\* reuses every intermediate segment that exists (same object, its other
\* attributes untouched) and sets the final attribute to the value,
\* overwriting what was there.  An entry whose path runs through a primitive
\* value raises AttributeError (the fatal case of C5).
C4_UpdateConfigSetsPaths ==
    op.name = "update_config" => EntriesApplied(op.pre, op.arg, config, raised)

\* update_config({"a.b.c": 5}) ran on an instance with no attribute a and
\* created a and a.b.
C4_Witness ==
    /\ op.name = "update_config"
    /\ raised = NoExc
    /\ op.arg = <<[key |-> <<"a", ".", "b", ".", "c">>, val |-> Leaf(5)]>>
    /\ ~HasAttr(op.pre, <<"a">>)
    /\ Node(config, <<<<"a">>, <<"b">>, <<"c">>>>) = Leaf(5)
    /\ Node(config, <<<<"a">>, <<"b">>>>).cls = Config_cls

\* C5: a path is never both a namespace and a leaf: setting a namespace
\* where a leaf exists (make_config over a colliding registry) raises, and
\* setting a leaf value where a namespace exists (update_config) raises
\* rather than silently replacing the namespace.
C5_NamespaceLeafCollisionRaises ==
    /\ (op.name = "make_config" /\ Collides(name_to_config)) => raised # NoExc
    /\ (op.name = "update_config" /\ Len(op.arg) = 1
          /\ Exists(op.pre, Split(op.arg[1].key))
          /\ IsObj(Node(op.pre, Split(op.arg[1].key)))) => raised # NoExc

\* C6: check_config never raises, so config_from_dict(updates) always
\* returns the constructed instance.
C6_CheckConfigNeverRaises ==
    op.name \in {"check_config", "config_from_dict"} => raised.by # "check_config"

====
